---- MODULE Spec2Model ----
(***************************************************************************)
(* The /api/generate-posts endpoint of PostTideAI                          *)
(* (src/src/app/api/generate-posts/route.ts): one POST request, from the   *)
(* session check to the response, with the text-generation provider, the   *)
(* image provider and the framework as the environment.                    *)
(***************************************************************************)
EXTENDS Integers, Sequences, FiniteSets, TLC

VARIABLES pc, session, body, attempt, parsedCaptions, openaiCalls, replies,
          imgCalls, imgResps, response, client

vars == <<pc, session, body, attempt, parsedCaptions, openaiCalls, replies,
          imgCalls, imgResps, response, client>>

(***************************************************************************)
(* Bounds of the model.                                                    *)
(***************************************************************************)
\* longest captions array a provider reply carries
MaxCaptions == 2
\* largest caption count a request asks for
MaxLength == 2
\* most photos an image provider answer lists
MaxPhotos == 2

(***************************************************************************)
(* JavaScript values.  Every value is a record of the same shape, so that  *)
(* values of different JavaScript types can be compared.                   *)
(***************************************************************************)
Undef == [t |-> "undefined", n |-> 0, s |-> "", a |-> <<>>]
Null == [t |-> "null", n |-> 0, s |-> "", a |-> <<>>]
NaN == [t |-> "nan", n |-> 0, s |-> "", a |-> <<>>]
Num(k) == [t |-> "number", n |-> k, s |-> "", a |-> <<>>]
Str(x) == [t |-> "string", n |-> 0, s |-> x, a |-> <<>>]
Arr(q) == [t |-> "array", n |-> 0, s |-> "", a |-> q]

\* ToBoolean: what the negations test (route.ts lines 69, 75, 88, 120)
Truthy(v) ==
  CASE v.t \in {"undefined", "null", "nan"} -> FALSE
    [] v.t = "number" -> v.n # 0
    [] v.t = "string" -> v.s # ""
    [] OTHER -> TRUE

\* the nullish coalescing operator (route.ts lines 48, 131, 132)
Coalesce(a, b) == IF a.t \in {"undefined", "null"} THEN b ELSE a

\* length * k (route.ts line 97); the string lengths of the model are
\* non-numeric, and Number of a non-numeric string is NaN
JsMul(v, k) == IF v.t = "number" THEN Num(v.n * k) ELSE NaN

(***************************************************************************)
(* Reply texts.  A text is a sequence of tokens: the two braces, a code    *)
(* fence (three backticks), the word json, white space, prose (x), the     *)
(* JSON literal null, the member M (the captions key with its value, caps) *)
(* and the member O (another key).  Adjacent members stand for             *)
(* comma-separated members.                                                *)
(***************************************************************************)
Tokens == {"{", "}", "fence", "json", " ", "x", "null", "M", "O"}

RECURSIVE DropWs(_)
DropWs(s) ==
  IF s = <<>> THEN <<>>
  ELSE IF Head(s) = " " THEN DropWs(Tail(s)) ELSE <<Head(s)>> \o DropWs(Tail(s))

\* JSON.parse (route.ts lines 103, 110) on a token text whose "M" member
\* carries the value caps: white space between tokens is insignificant, the
\* only values of the grammar are the literal null and an object of members
JSONParse(text, caps) ==
  LET s == DropWs(text)
      n == Len(s)
  IN  IF s = <<"null">>
        THEN [ok |-> TRUE, kind |-> "null", captions |-> Undef]
      ELSE IF n >= 2 /\ s[1] = "{" /\ s[n] = "}"
                     /\ \A i \in 2..(n - 1) : s[i] \in {"M", "O"}
        THEN [ok |-> TRUE, kind |-> "object",
              captions |-> IF \E i \in 2..(n - 1) : s[i] = "M" THEN caps ELSE Undef]
      ELSE [ok |-> FALSE, kind |-> "error", captions |-> Undef]

\* the replace of route.ts line 57: every fence goes, together with a json
\* tag that follows it directly
RECURSIVE StripTicks(_)
StripTicks(s) ==
  IF s = <<>> THEN <<>>
  ELSE IF Head(s) = "fence"
    THEN IF Len(s) >= 2 /\ s[2] = "json"
           THEN StripTicks(Tail(Tail(s)))
           ELSE StripTicks(Tail(s))
  ELSE <<Head(s)>> \o StripTicks(Tail(s))

\* String.prototype.trim
RECURSIVE TrimLeft(_)
TrimLeft(s) == IF s # <<>> /\ Head(s) = " " THEN TrimLeft(Tail(s)) ELSE s

RECURSIVE TrimRight(_)
TrimRight(s) ==
  IF s # <<>> /\ s[Len(s)] = " " THEN TrimRight(SubSeq(s, 1, Len(s) - 1)) ELSE s

Trim(s) == TrimRight(TrimLeft(s))

\* extractJson: strip the fences, trim, then the span from the first opening
\* brace to the last closing brace (the match is greedy), or no match
extractJson(raw) ==
  LET withoutTicks == Trim(StripTicks(raw))
      opens == {i \in 1..Len(withoutTicks) : withoutTicks[i] = "{"}
      first == CHOOSE i \in opens : \A j \in opens : i <= j
      closes == {i \in 1..Len(withoutTicks) : withoutTicks[i] = "}" /\ i > first}
      last == CHOOSE i \in closes : \A j \in closes : j <= i
  IN  IF opens = {} \/ closes = {}
        THEN [matched |-> FALSE, text |-> <<>>]
        ELSE [matched |-> TRUE, text |-> SubSeq(withoutTicks, first, last)]

\* JSON.parse(x).captions inside a try: reading .captions of null throws
\* a TypeError, which the same catch takes
TryCaptions(text, caps) ==
  LET p == JSONParse(text, caps)
  IN  [threw |-> ~p.ok \/ p.kind = "null", captions |-> p.captions]

\* a caption string with a code fence in it, and what the replace of line
\* 57 leaves of it; in a string of the model the word fence stands for the
\* three backticks
FencedCaption == "A fence B"
StrippedCaption == "A  B"

\* the replace of line 57 on the content of a string of the reply
StripTicksString(x) == IF x = FencedCaption THEN StrippedCaption ELSE x

\* the replace of line 57 on the value of the captions member: it works on
\* the whole reply text, the strings of the member included
StripTicksValue(v) ==
  IF v.t = "string" THEN Str(StripTicksString(v.s))
  ELSE IF v.t = "array"
    THEN Arr([i \in 1..Len(v.a) |->
                IF v.a[i].t = "string" THEN Str(StripTicksString(v.a[i].s))
                                       ELSE v.a[i]])
  ELSE v

\* One pass of the loop body after the reply arrived (route.ts lines
\* 102-117): direct parse, else recovery parse of the extracted span, whose
\* member carries the value as extractJson left it
ParseReply(text, caps) ==
  LET direct == TryCaptions(text, caps)
      cleaned == extractJson(text)
      recovered == TryCaptions(cleaned.text, StripTicksValue(caps))
  IN  IF ~direct.threw
        THEN [assigned |-> TRUE, via |-> "direct", captions |-> direct.captions]
      ELSE IF cleaned.matched /\ ~recovered.threw
        THEN [assigned |-> TRUE, via |-> "recovery", captions |-> recovered.captions]
      ELSE [assigned |-> FALSE, via |-> "none", captions |-> Undef]

(***************************************************************************)
(* Program constants.                                                      *)
(***************************************************************************)
\* a loop bound that is off by one (attempt <= 2)
MaxAttemptsOffByOne == 2 + 1

\* the loop bound of route.ts line 88
MaxAttempts == 2
\* sampling temperature of the first attempt, in tenths (0.6), line 96
FirstTemperature == 6
\* sampling temperature of the retry, in tenths (0), line 96
RetryTemperature == 0
\* tokens per caption of the first attempt and of the retry, line 97
FirstTokensPerCaption == 40
RetryTokensPerCaption == 30

(***************************************************************************)
(* The environment's inputs.                                               *)
(***************************************************************************)
\* what getServerSession resolves to: no session, a session without a user,
\* a user without an email, and users with a null, an empty and a real email
Sessions ==
  {[present |-> FALSE, hasUser |-> FALSE, email |-> Undef],
   [present |-> TRUE, hasUser |-> FALSE, email |-> Undef],
   [present |-> TRUE, hasUser |-> TRUE, email |-> Undef],
   [present |-> TRUE, hasUser |-> TRUE, email |-> Null],
   [present |-> TRUE, hasUser |-> TRUE, email |-> Str("")],
   [present |-> TRUE, hasUser |-> TRUE, email |-> Str("a@b.c")]}

Industries == {Undef, Str(""), Str("coffee shop")}
Tones == {Undef, Str(""), Str("playful")}
Lengths == {Undef, Num(0), Num(-1), Str("abc")} \cup {Num(k) : k \in 1..MaxLength}

\* request bodies: text that is no JSON (req.json rejects), the JSON value
\* null (it cannot be destructured), and objects; Undef is a missing field
Bodies ==
  {[kind |-> "invalid", industry |-> Undef, tone |-> Undef, length |-> Undef],
   [kind |-> "null", industry |-> Undef, tone |-> Undef, length |-> Undef]}
  \cup [kind : {"object"}, industry : Industries, tone : Tones, length : Lengths]

SeqsUpTo(S, n) == UNION {[1..k -> S] : k \in 0..n}

CaptionStrings == {Str("A"), Str("B")}

\* values of the captions member: arrays of strings, arrays with a number
\* among the entries, an array whose string has a code fence in it, and
\* values that are no array
CaptionValues ==
  {Arr(q) : q \in SeqsUpTo(CaptionStrings, MaxCaptions)}
  \cup {Arr(<<Num(7)>>), Arr(<<Str("A"), Num(7)>>)}
  \cup {Arr(<<Str(FencedCaption)>>)}
  \cup {Str("hello"), Num(5), Null, Str("")}

\* reply texts with a captions member that parse, as they stand or after the
\* recovery step: the bare object, the object among white space and another
\* member, in fences with and without the json tag, and in prose
MemberTexts ==
  {<<"{", "M", "}">>,
   <<" ", "{", "M", "O", "}", " ">>,
   <<"fence", "json", " ", "{", "M", "}", " ", "fence">>,
   <<"fence", " ", "{", "M", "}", " ", "fence">>,
   <<"x", " ", "{", "M", "}", " ", "x">>}

\* reply texts with a captions member that is cut off or followed by more
\* braces
BrokenTexts ==
  {<<"{", "M", "}", "x", "{", "M", "}">>,
   <<"{", "M", "}", "x", "}">>,
   <<"{", "M">>}

\* reply texts without a captions member
PlainTexts ==
  {<<"{", "}">>,
   <<"{", "O", "}">>,
   <<"x">>,
   <<"null">>,
   <<"fence", "json", " ", "null", " ", "fence">>,
   <<>>}

ReplyTexts == MemberTexts \cup BrokenTexts \cup PlainTexts

\* what openai.chat.completions.create resolves to: it rejects ("throw"),
\* it has no choices, its message has no content, or it has a content text
Completions ==
  {[kind |-> k, text |-> <<>>, caps |-> Undef] : k \in {"throw", "nochoices", "nocontent"}}
  \cup {[kind |-> "text", text |-> x, caps |-> c] : x \in MemberTexts, c \in CaptionValues}
  \cup {[kind |-> "text", text |-> x, caps |-> Arr(<<Str("B"), Str("A")>>)] : x \in BrokenTexts}
  \cup {[kind |-> "text", text |-> x, caps |-> Undef] : x \in PlainTexts}

Photos ==
  {[url |-> "https://img/x.jpg", alt_description |-> Null],
   [url |-> "https://img/y.jpg", alt_description |-> Str("latte art")]}

\* what the fetch of the image search resolves to: it rejects, it answers
\* with a non-success status, with a body that is no JSON, with JSON that
\* has no results list, or with a list of photos
ImageResponses ==
  {[kind |-> "reject", ok |-> FALSE, decodable |-> FALSE, hasResults |-> FALSE, results |-> <<>>],
   [kind |-> "response", ok |-> FALSE, decodable |-> TRUE, hasResults |-> TRUE, results |-> <<>>],
   [kind |-> "response", ok |-> FALSE, decodable |-> FALSE, hasResults |-> FALSE, results |-> <<>>],
   [kind |-> "response", ok |-> TRUE, decodable |-> FALSE, hasResults |-> FALSE, results |-> <<>>],
   [kind |-> "response", ok |-> TRUE, decodable |-> TRUE, hasResults |-> FALSE, results |-> <<>>]}
  \cup {[kind |-> "response", ok |-> TRUE, decodable |-> TRUE, hasResults |-> TRUE, results |-> r] :
          r \in SeqsUpTo(Photos, MaxPhotos)}

(***************************************************************************)
(* Responses.                                                              *)
(***************************************************************************)
Pending == [status |-> 0, kind |-> "pending", error |-> "", results |-> <<>>]

\* NextResponse.json({ error: "Unauthorized" }, { status: 401 })
UnauthorizedResponse ==
  [status |-> 401, kind |-> "error", error |-> "Unauthorized", results |-> <<>>]

\* NextResponse.json({ error: "Missing parameters" }, { status: 400 })
MissingResponse ==
  [status |-> 400, kind |-> "error", error |-> "Missing parameters", results |-> <<>>]

\* the catch block: NextResponse.json({ error: ... }, { status: 502 })
FailureResponse ==
  [status |-> 502, kind |-> "error", error |-> "Failed to generate captions",
   results |-> <<>>]

\* an exception that leaves POST: the framework answers 500 itself, and the
\* handler's catch block has no part in the body
UnhandledResponse ==
  [status |-> 500, kind |-> "unhandled", error |-> "", results |-> <<>>]

\* NextResponse.json({ results }), status 200 by default
SuccessResponse(results) ==
  [status |-> 200, kind |-> "results", error |-> "", results |-> results]

(***************************************************************************)
(* The handler's helpers.                                                  *)
(***************************************************************************)
\* session?.user?.email
SessionEmail(s) == IF s.present /\ s.hasUser THEN s.email ELSE Undef

\* a guard that looks for the user and not for the email
UnauthenticatedUserOnly(s) == ~(s.present /\ s.hasUser)

\* !session?.user?.email
Unauthenticated(s) == ~Truthy(SessionEmail(s))

\* a validation that leaves length out
MissingParametersNoLength(b) == ~Truthy(b.industry) \/ ~Truthy(b.tone)

\* !industry || !tone || !length
MissingParameters(b) ==
  ~Truthy(b.industry) \/ ~Truthy(b.tone) \/ ~Truthy(b.length)

NoImage == [present |-> FALSE, url |-> Undef, alt |-> Undef]

\* a lookup without the res.ok test of line 42
fetchUnsplashImageNoStatusCheck(resp, query) ==
  IF resp.kind = "reject" THEN [threw |-> TRUE, image |-> NoImage]
  ELSE IF ~resp.decodable \/ ~resp.hasResults THEN [threw |-> TRUE, image |-> NoImage]
  ELSE IF Len(resp.results) = 0 THEN [threw |-> FALSE, image |-> NoImage]
  ELSE [threw |-> FALSE,
        image |-> [present |-> TRUE,
                   url |-> Str(resp.results[1].url),
                   alt |-> Coalesce(resp.results[1].alt_description, query)]]

\* a lookup that takes the last result of the list
fetchUnsplashImageLastResult(resp, query) ==
  IF resp.kind = "reject" THEN [threw |-> TRUE, image |-> NoImage]
  ELSE IF ~resp.ok THEN [threw |-> FALSE, image |-> NoImage]
  ELSE IF ~resp.decodable \/ ~resp.hasResults THEN [threw |-> TRUE, image |-> NoImage]
  ELSE IF Len(resp.results) = 0 THEN [threw |-> FALSE, image |-> NoImage]
  ELSE [threw |-> FALSE,
        image |-> [present |-> TRUE,
                   url |-> Str(resp.results[Len(resp.results)].url),
                   alt |-> Coalesce(resp.results[Len(resp.results)].alt_description,
                                    query)]]

\* fetchUnsplashImage on the response resp of its fetch: it throws when the
\* fetch rejects, when res.json() rejects and when data.results is missing
fetchUnsplashImage(resp, query) ==
  IF resp.kind = "reject" THEN [threw |-> TRUE, image |-> NoImage]
  ELSE IF ~resp.ok THEN [threw |-> FALSE, image |-> NoImage]
  ELSE IF ~resp.decodable \/ ~resp.hasResults THEN [threw |-> TRUE, image |-> NoImage]
  ELSE IF Len(resp.results) = 0 THEN [threw |-> FALSE, image |-> NoImage]
  ELSE [threw |-> FALSE,
        image |-> [present |-> TRUE,
                   url |-> Str(resp.results[1].url),
                   alt |-> Coalesce(resp.results[1].alt_description, query)]]

\* one element of the map of line 129
GeneratedItem(c, image, industry) ==
  [caption |-> c,
   imageUrl |-> Coalesce(image.url, Null),
   alt |-> Coalesce(image.alt, industry)]

\* parsedCaptions.map(...), for an array
BuildResults(captions, image, industry) ==
  [i \in 1..Len(captions.a) |-> GeneratedItem(captions.a[i], image, industry)]

\* the request of one attempt (lines 96, 97)
CompletionRequest(att, length) ==
  [temperature |-> IF att = 0 THEN FirstTemperature ELSE RetryTemperature,
   max_tokens |-> JsMul(length, IF att = 0 THEN FirstTokensPerCaption
                                          ELSE RetryTokensPerCaption)]

\* completion.choices[0].message?.content ?? "{}"
RawContent(completion) ==
  IF completion.kind = "nocontent" THEN <<"{", "}">> ELSE completion.text

(***************************************************************************)
(* The callers of the endpoint: the two client pages of the repository     *)
(* (src/app/page.tsx and the page of src/unnamed/part_000), each with its  *)
(* handleGenerate, and a caller that is no page of the repository.         *)
(***************************************************************************)
Pages == {"page.tsx", "part_000"}
Callers == Pages \cup {"direct"}

\* the state of a page when handleGenerate has reset it and sent the
\* request: an empty list and no error
ClientStart(who) ==
  [who |-> who, handled |-> FALSE, got |-> "array", items |-> <<>>, error |-> ""]

\* JSON.stringify({ industry, tone, length }) of a page: two strings of
\* text inputs and the Number of a number input
FormBody(b) ==
  /\ b.kind = "object"
  /\ b.industry.t = "string" /\ b.tone.t = "string"
  /\ b.length.t = "number"

\* the field of the success body that the page destructures:
\* const { captions } in page.tsx, const { results } in part_000
ReadField(who) == IF who = "page.tsx" THEN "captions" ELSE "results"

\* the value of field f of the body of response r
BodyField(r, f) ==
  IF r.kind = "results" /\ f = "results"
    THEN [got |-> "array", items |-> r.results]
    ELSE [got |-> "undefined", items |-> <<>>]

\* res.ok
ResOk(r) == r.status >= 200 /\ r.status <= 299

\* the message of the Error that handleGenerate catches after a response
\* that is not ok: the error field of the body, or the message of the
\* rejected res.json() where the body is no JSON
ClientError(r) == IF r.kind = "error" THEN r.error ELSE "SyntaxError"

(***************************************************************************)
(* The request, step by step.                                              *)
(***************************************************************************)
Init ==
  /\ pc = "auth"
  /\ session \in Sessions
  /\ body \in Bodies
  /\ client \in {ClientStart(w) : w \in Callers}
  /\ client.who \in Pages => FormBody(body)
  /\ attempt = 0
  /\ parsedCaptions = Null
  /\ openaiCalls = <<>>
  /\ replies = <<>>
  /\ imgCalls = <<>>
  /\ imgResps = <<>>
  /\ response = Pending

Respond(r) == response' = r /\ pc' = "done"

\* a) lines 68-71
Auth ==
  /\ pc = "auth"
  /\ IF Unauthenticated(session)
       THEN Respond(UnauthorizedResponse)
       ELSE pc' = "body" /\ UNCHANGED response
  /\ UNCHANGED <<client, session, body, attempt, parsedCaptions, openaiCalls, replies,
                 imgCalls, imgResps>>

\* b) lines 74-77, which no try encloses
ValidateBody ==
  /\ pc = "body"
  /\ IF body.kind # "object" THEN Respond(UnhandledResponse)
     ELSE IF MissingParameters(body) THEN Respond(MissingResponse)
     ELSE pc' = "loop" /\ UNCHANGED response
  /\ UNCHANGED <<client, session, body, attempt, parsedCaptions, openaiCalls, replies,
                 imgCalls, imgResps>>

\* d) one iteration of the loop, lines 88-118, with the provider answering
\* from the set answers: the provider call and the parsing of its reply; an
\* exception of the call or of choices[0].message goes to the catch of line
\* 137
AttemptFrom(answers) ==
  /\ pc = "loop"
  /\ attempt < MaxAttempts /\ ~Truthy(parsedCaptions)
  /\ \E completion \in answers :
       LET parsed == ParseReply(RawContent(completion), completion.caps)
       IN  /\ openaiCalls' = Append(openaiCalls, CompletionRequest(attempt, body.length))
           /\ replies' = Append(replies, completion)
           /\ IF completion.kind \in {"throw", "nochoices"}
                THEN Respond(FailureResponse) /\ UNCHANGED <<attempt, parsedCaptions>>
              ELSE IF parsed.assigned
                THEN /\ parsedCaptions' = parsed.captions
                     /\ pc' = "afterloop"
                     /\ UNCHANGED <<attempt, response>>
              ELSE /\ attempt' = attempt + 1
                   /\ UNCHANGED <<pc, parsedCaptions, response>>
  /\ UNCHANGED <<client, session, body, imgCalls, imgResps>>

Attempt == AttemptFrom(Completions)

\* the loop condition of line 88, false
LoopExit ==
  /\ pc = "loop"
  /\ ~(attempt < MaxAttempts /\ ~Truthy(parsedCaptions))
  /\ pc' = "afterloop"
  /\ UNCHANGED <<client, session, body, attempt, parsedCaptions, openaiCalls, replies,
                 imgCalls, imgResps, response>>

\* a check that puts an empty caption list in place of the exception
CheckCaptionsPlaceholder ==
  /\ pc = "afterloop"
  /\ parsedCaptions' = IF ~Truthy(parsedCaptions) THEN Arr(<<>>) ELSE parsedCaptions
  /\ pc' = "image"
  /\ UNCHANGED <<client, session, body, attempt, openaiCalls, replies, imgCalls,
                 imgResps, response>>

\* line 120
CheckCaptions ==
  /\ pc = "afterloop"
  /\ IF ~Truthy(parsedCaptions)
       THEN Respond(FailureResponse)
       ELSE pc' = "image" /\ UNCHANGED response
  /\ UNCHANGED <<client, session, body, attempt, parsedCaptions, openaiCalls, replies,
                 imgCalls, imgResps>>

\* e) f) g) lines 123-136: the image lookup, the payload and the response;
\* map is no function of a value that is no array, which throws.  The page
\* number, random in 1..10, enters the URL of the search and nothing else,
\* and the call is recorded by its query
ImageAndRespond ==
  /\ pc = "image"
  /\ \E resp \in ImageResponses :
       LET got == fetchUnsplashImage(resp, body.industry)
       IN  /\ imgCalls' = Append(imgCalls, [query |-> body.industry])
           /\ imgResps' = Append(imgResps, resp)
           /\ IF got.threw \/ parsedCaptions.t # "array"
                THEN Respond(FailureResponse)
                ELSE Respond(SuccessResponse(
                       BuildResults(parsedCaptions, got.image, body.industry)))
  /\ UNCHANGED <<client, session, body, attempt, parsedCaptions, openaiCalls, replies>>

\* handleGenerate of a page, from the arrival of the response on
\* (page.tsx lines 66-78, part_000 lines 83-99)
ClientHandle ==
  /\ pc = "done"
  /\ client.who \in Pages
  /\ ~client.handled
  /\ client' =
       IF ~ResOk(response)
         THEN [client EXCEPT !.handled = TRUE, !.error = ClientError(response)]
         ELSE LET read == BodyField(response, ReadField(client.who))
              IN  [client EXCEPT !.handled = TRUE, !.got = read.got,
                                 !.items = read.items]
  /\ UNCHANGED <<pc, session, body, attempt, parsedCaptions, openaiCalls,
                 replies, imgCalls, imgResps, response>>

Next ==
  \/ Auth
  \/ ValidateBody
  \/ Attempt
  \/ LoopExit
  \/ CheckCaptions
  \/ ImageAndRespond
  \/ ClientHandle

Spec == Init /\ [][Next]_vars

(***************************************************************************)
(* The extraction step on fenced replies: the request of an authenticated  *)
(* caller with a valid body, from the first provider call on, where the    *)
(* provider answers with a valid object that has a captions array, bare    *)
(* or wrapped in code fences.                                              *)
(***************************************************************************)
\* longest bare object, in tokens
MaxObjectLen == 4

\* the valid objects with a captions member, other members and white space
\* allowed
ObjectTexts ==
  {x \in SeqsUpTo({"{", "}", "M", "O", " "}, MaxObjectLen) :
     /\ JSONParse(x, Null).kind = "object"
     /\ \E i \in 1..Len(x) : x[i] = "M"}

\* a wrapping: with or without the json tag, with or without white space
\* (the line breaks) between the fences and the object
Wrappings == [tag : BOOLEAN, pad : BOOLEAN]

Wrap(w, obj) ==
  <<"fence">> \o (IF w.tag THEN <<"json">> ELSE <<>>)
              \o (IF w.pad THEN <<" ">> ELSE <<>>)
              \o obj
              \o (IF w.pad THEN <<" ">> ELSE <<>>)
              \o <<"fence">>

CaptionArrays == {v \in CaptionValues : v.t = "array"}

FenceCompletions ==
  {[kind |-> "text", text |-> x, caps |-> c] :
     x \in ObjectTexts \cup {Wrap(w, obj) : w \in Wrappings, obj \in ObjectTexts},
     c \in CaptionArrays}

InitFence ==
  /\ pc = "loop"
  /\ session = [present |-> TRUE, hasUser |-> TRUE, email |-> Str("a@b.c")]
  /\ body = [kind |-> "object", industry |-> Str("coffee shop"),
             tone |-> Str("playful"), length |-> Num(1)]
  /\ attempt = 0
  /\ parsedCaptions = Null
  /\ openaiCalls = <<>>
  /\ replies = <<>>
  /\ imgCalls = <<>>
  /\ imgResps = <<>>
  /\ response = Pending
  /\ client = ClientStart("direct")

FenceAttempt == AttemptFrom(FenceCompletions)

NextFence ==
  \/ FenceAttempt
  \/ CheckCaptions
  \/ ImageAndRespond

SpecFence == InitFence /\ [][NextFence]_vars

(***************************************************************************)
(* Vocabulary of the properties.                                           *)
(***************************************************************************)
Done == pc = "done"

\* the session carries an identity with an email
HasEmail ==
  session.present /\ session.hasUser /\ session.email.t = "string"
    /\ session.email.s # ""

\* the reply arrived with content
Arrived(c) == c.kind \in {"text", "nocontent"}

\* neither the direct parse nor the recovery parse of the reply succeeds
Unparsable(c) == Arrived(c) /\ ~ParseReply(RawContent(c), c.caps).assigned

IsArray(v) == v.t = "array"

IsStringArray(v) == IsArray(v) /\ \A i \in 1..Len(v.a) : v.a[i].t = "string"

\* the reply is valid JSON as it stands, an object with a captions array
ValidWithCaptionsArray(c) ==
  /\ c.kind = "text"
  /\ JSONParse(c.text, c.caps).kind = "object"
  /\ IsArray(JSONParse(c.text, c.caps).captions)

\* the reply parses, directly or after recovery, and its captions field is
\* missing, no sequence, or a sequence with an entry that is no string
Malformed(c) ==
  /\ Arrived(c)
  /\ ParseReply(RawContent(c), c.caps).assigned
  /\ ~IsStringArray(ParseReply(RawContent(c), c.caps).captions)

GenericFailure(r) ==
  /\ r.status \in {500, 502}
  /\ r.kind = "error"
  /\ r.error = "Failed to generate captions"
  /\ r.results = <<>>

\* a success response whose items carry the captions q, in order
SuccessWith(r, q) ==
  /\ r.status = 200
  /\ r.kind = "results"
  /\ Len(r.results) = Len(q)
  /\ \A i \in 1..Len(q) : r.results[i].caption = q[i]

\* every item has no image and the topic as its alt text
NoImageItems(r) ==
  \A i \in 1..Len(r.results) :
    r.results[i].imageUrl = Null /\ r.results[i].alt = body.industry

\* the image lookup failed at the transport level: the fetch rejected, or
\* the body of a success answer is no JSON or has no results list
TransportFailure(resp) ==
  resp.kind = "reject" \/ (resp.ok /\ (~resp.decodable \/ ~resp.hasResults))

\* the image provider answered with a non-success status or with no result
NoPhotoAnswer(resp) ==
  /\ resp.kind = "response"
  /\ ~resp.ok \/ (resp.decodable /\ resp.hasResults /\ resp.results = <<>>)

(***************************************************************************)
(* C1: when the first reply is unparsable and the retry's reply is valid   *)
(* JSON with a captions array, the request ends 200 with the items built   *)
(* from the second reply's captions, in order.                             *)
(***************************************************************************)
C1_RetryReplySucceeds ==
  (Done /\ Len(replies) = 2 /\ Unparsable(replies[1])
        /\ ValidWithCaptionsArray(replies[2]))
    => SuccessWith(response, replies[2].caps.a)

\* C1 apart from the exceptions of the image lookup (see C5): the request
\* then ends 200 with the second reply's captions
C1_RetryReplySucceedsIfLookupReturns ==
  (Done /\ Len(replies) = 2 /\ Unparsable(replies[1])
        /\ ValidWithCaptionsArray(replies[2])
        /\ ~TransportFailure(imgResps[1]))
    => SuccessWith(response, replies[2].caps.a)

(***************************************************************************)
(* C2: when the replies of both attempts are unparsable, the request ends  *)
(* with the generic failure body and a 500/502 status, carries no item,    *)
(* and nothing was fabricated (no image lookup, no caption list).          *)
(***************************************************************************)
C2_BothUnparsableFails ==
  (Done /\ Len(replies) = 2 /\ Unparsable(replies[1]) /\ Unparsable(replies[2]))
    => GenericFailure(response) /\ ~Truthy(parsedCaptions) /\ imgCalls = <<>>

C2_Witness ==
  /\ Done /\ Len(replies) = 2
  /\ Unparsable(replies[1]) /\ Unparsable(replies[2])
  /\ replies[1].text = <<"x">> /\ replies[2].text = <<"{", "M">>
  /\ response.status = 502

(***************************************************************************)
(* C3: a reply that parses but whose captions field is missing, is no      *)
(* sequence or has a non-string entry is treated as malformed: as the      *)
(* first reply it is followed by the retry call, and no success response   *)
(* is built from such a reply.                                             *)
(***************************************************************************)
C3_MalformedCaptionsRejected ==
  (Done /\ Len(replies) >= 1) =>
    /\ Malformed(replies[1]) => Len(openaiCalls) = 2
    /\ response.status = 200 => ~Malformed(replies[Len(replies)])

(***************************************************************************)
(* C4: a request whose session has no identity or no email ends 401        *)
(* Unauthorized, whatever its body, and neither provider is called.        *)
(***************************************************************************)
C4_UnauthenticatedRejected ==
  ~HasEmail =>
    /\ openaiCalls = <<>> /\ imgCalls = <<>>
    /\ pc \in {"auth", "done"}
    /\ Done => /\ response.status = 401
               /\ response.kind = "error"
               /\ response.error = "Unauthorized"

C4_Witness ==
  /\ Done /\ session.present /\ session.hasUser /\ session.email = Undef
  /\ body.kind = "invalid"
  /\ response.status = 401

(***************************************************************************)
(* C5: when the image lookup fails at the transport level and captions     *)
(* were recovered, the request still ends 200 with those captions, no      *)
(* image and the topic as alt text.                                        *)
(***************************************************************************)
C5_LookupFailureNeverAborts ==
  (Done /\ Len(imgResps) = 1 /\ TransportFailure(imgResps[1])
        /\ IsArray(parsedCaptions))
    => SuccessWith(response, parsedCaptions.a) /\ NoImageItems(response)

(***************************************************************************)
(* C6: when the image provider answers with a non-success status or with   *)
(* no result and captions were recovered, the request ends 200 with all    *)
(* of them, and every item has imageUrl null and the topic as alt.         *)
(***************************************************************************)
C6_NoPhotoFallsBack ==
  (Done /\ Len(imgResps) = 1 /\ NoPhotoAnswer(imgResps[1])
        /\ IsArray(parsedCaptions))
    => SuccessWith(response, parsedCaptions.a) /\ NoImageItems(response)

C6_Witness ==
  /\ Done /\ Len(imgResps) = 1
  /\ ~imgResps[1].ok /\ ~imgResps[1].decodable
  /\ Len(response.results) = 2
  /\ NoImageItems(response)

(***************************************************************************)
(* C7: an authenticated request whose body lacks any of industry, tone     *)
(* and length ends 400 Missing parameters, and neither provider is called. *)
(***************************************************************************)
C7_MissingParametersRejected ==
  (HasEmail /\ body.kind = "object"
            /\ Undef \in {body.industry, body.tone, body.length}) =>
    /\ openaiCalls = <<>> /\ imgCalls = <<>>
    /\ pc \in {"auth", "body", "done"}
    /\ Done => /\ response.status = 400
               /\ response.kind = "error"
               /\ response.error = "Missing parameters"

C7_Witness ==
  /\ Done /\ HasEmail /\ body.kind = "object"
  /\ body.industry # Undef /\ body.tone # Undef /\ body.length = Undef
  /\ response.status = 400

(***************************************************************************)
(* C8: an authenticated request ends in a success payload, in the          *)
(* missing-parameters error, or, on any error met while it is handled,     *)
(* with a 500/502 status and the generic failure body.                     *)
(***************************************************************************)
C8_ErrorsEndGeneric ==
  (Done /\ HasEmail /\ response.kind # "results" /\ response.status # 400)
    => GenericFailure(response)

(***************************************************************************)
(* C9: a success response has one item per recovered caption, in order,    *)
(* and a reply whose captions is the empty array ends the request 200      *)
(* with no item, without a retry.                                          *)
(***************************************************************************)
C9_ItemsFollowCaptions ==
  /\ (Done /\ response.status = 200) => SuccessWith(response, parsedCaptions.a)
  /\ (Done /\ parsedCaptions = Arr(<<>>)) =>
       /\ SuccessWith(response, <<>>)
       /\ replies[Len(replies)].caps = Arr(<<>>)

\* the first half of C9, which no exception of the image lookup touches
C9_SuccessItemsFollowCaptions ==
  (Done /\ response.status = 200) =>
    /\ IsArray(parsedCaptions)
    /\ SuccessWith(response, parsedCaptions.a)
    /\ parsedCaptions = ParseReply(RawContent(replies[Len(replies)]),
                                   replies[Len(replies)].caps).captions

(***************************************************************************)
(* C10: the items of a success response all carry the same imageUrl and    *)
(* alt; when the image provider returned a result, these are the first     *)
(* result's url and its description, or the topic where it has none.       *)
(***************************************************************************)
C10_OneImageForAll ==
  (Done /\ response.status = 200) =>
    /\ \A i, j \in 1..Len(response.results) :
         /\ response.results[i].imageUrl = response.results[j].imageUrl
         /\ response.results[i].alt = response.results[j].alt
    /\ (imgResps[1].ok /\ imgResps[1].results # <<>>) =>
         \A i \in 1..Len(response.results) :
           /\ response.results[i].imageUrl = Str(imgResps[1].results[1].url)
           /\ response.results[i].alt =
                IF imgResps[1].results[1].alt_description = Null
                  THEN body.industry
                  ELSE imgResps[1].results[1].alt_description

C10_Witness ==
  /\ Done /\ response.status = 200
  /\ Len(response.results) = 2
  /\ Len(imgResps[1].results) = 2
  /\ imgResps[1].results[1].alt_description = Null
  /\ imgResps[1].results[2].alt_description # Null
  /\ response.results[2].alt = body.industry

(***************************************************************************)
(* C11: parsing is insensitive to code fences: a valid object with a       *)
(* captions array, wrapped in fences with or without the json tag, yields  *)
(* in the same attempt, without a retry call, the caption sequence that    *)
(* the bare object yields.                                                 *)
(***************************************************************************)
C11_FenceInsensitive ==
  \A obj \in ObjectTexts, w \in Wrappings :
    (Len(replies) >= 1 /\ replies[1].text = Wrap(w, obj)) =>
      /\ Len(openaiCalls) = 1
      /\ parsedCaptions = ParseReply(obj, replies[1].caps).captions

\* C11 for the captions that have no code fence in a string of theirs
C11_FenceInsensitiveWithoutInnerFence ==
  \A obj \in ObjectTexts, w \in Wrappings :
    (Len(replies) >= 1 /\ replies[1].text = Wrap(w, obj)
       /\ replies[1].caps = StripTicksValue(replies[1].caps)) =>
      /\ Len(openaiCalls) = 1
      /\ IsArray(parsedCaptions)
      /\ parsedCaptions = ParseReply(obj, replies[1].caps).captions

(***************************************************************************)
(* C12: the success body holds the data under the field results, and       *)
(* every page of the repository that handles a success response reads      *)
(* that field: what the page then holds is the list of the response.       *)
(***************************************************************************)
C12_PagesReadResults ==
  (client.handled /\ response.status = 200) =>
    /\ response.kind = "results"
    /\ client.got = "array"
    /\ client.items = response.results

\* C12 for the page of part_000 alone
C12_Part000ReadsResults ==
  (client.handled /\ response.status = 200 /\ client.who = "part_000") =>
    /\ response.kind = "results"
    /\ client.got = "array"
    /\ client.items = response.results

(***************************************************************************)
(* C13: a request makes at most two text-generation calls, one after the   *)
(* other: the reply of a call is there before anything else happens, and   *)
(* the second call is made only after the first reply failed the direct    *)
(* parse and the recovery parse.                                           *)
(***************************************************************************)
C13_TwoSequentialCalls ==
  /\ Len(openaiCalls) <= 2
  /\ Len(replies) = Len(openaiCalls)
  /\ Len(openaiCalls) = 2 =>
       /\ Arrived(replies[1])
       /\ TryCaptions(RawContent(replies[1]), replies[1].caps).threw
       /\ \/ ~extractJson(RawContent(replies[1])).matched
          \/ TryCaptions(extractJson(RawContent(replies[1])).text,
                         StripTicksValue(replies[1].caps)).threw

C13_Witness ==
  /\ Done /\ Len(openaiCalls) = 2
  /\ replies[1].text = <<"{", "M", "}", "x", "{", "M", "}">>
  /\ replies[2].text = <<"fence", "json", " ", "{", "M", "}", " ", "fence">>
  /\ openaiCalls[1].temperature = 6 /\ openaiCalls[2].temperature = 0
  /\ response.status = 200

(***************************************************************************)
(* C14: no provider is called before the request is validated: industry    *)
(* and tone are non-empty strings and length is an integer >= 1.           *)
(***************************************************************************)
C14_ValidatedBeforeCalls ==
  (openaiCalls # <<>> \/ imgCalls # <<>>) =>
    /\ body.kind = "object"
    /\ body.industry.t = "string" /\ body.industry.s # ""
    /\ body.tone.t = "string" /\ body.tone.s # ""
    /\ body.length.t = "number" /\ body.length.n >= 1

(***************************************************************************)
(* C15: the image provider is called at most once, and only after a        *)
(* caption list was recovered; a request that ends 400, 401 or with the    *)
(* generation failure of exhausted attempts or of a text-provider error    *)
(* has made no image call.                                                 *)
(***************************************************************************)
C15_ImageAfterCaptionList ==
  /\ Len(imgCalls) <= 1
  /\ imgCalls # <<>> => IsArray(parsedCaptions)
  /\ (Done /\ response.status \in {400, 401}) => imgCalls = <<>>
  /\ (Done /\ Len(replies) >= 1
           /\ \/ replies[Len(replies)].kind \in {"throw", "nochoices"}
              \/ Len(replies) = 2 /\ Unparsable(replies[1]) /\ Unparsable(replies[2]))
       => imgCalls = <<>>

\* C15 with the test of line 120 in place of the caption list: the image
\* provider is called only after the loop left a truthy captions value
C15_ImageAfterAcceptedCaptions ==
  /\ Len(imgCalls) <= 1
  /\ imgCalls # <<>> =>
       /\ Truthy(parsedCaptions)
       /\ ParseReply(RawContent(replies[Len(replies)]),
                     replies[Len(replies)].caps).assigned
  /\ (Done /\ response.status \in {400, 401}) => imgCalls = <<>>
  /\ (Done /\ Len(replies) >= 1
           /\ \/ replies[Len(replies)].kind \in {"throw", "nochoices"}
              \/ Len(replies) = 2 /\ Unparsable(replies[1]) /\ Unparsable(replies[2]))
       => imgCalls = <<>>
====
